---- MODULE Spec2Model ----
(***************************************************************************)
(* Cluster algebra of content-network-analyzer.                            *)
(*                                                                         *)
(* Entities (GitHubRepository, YouTubeTrack, ...) are handles onto a       *)
(* per-URL SortedSet of snapshots kept in a class-level                    *)
(* WeakValueDictionary.  Clusters are entities or LazyUnions of clusters;  *)
(* iterating a cluster walks the live stores.                              *)
(***************************************************************************)
EXTENDS Integers, Sequences, FiniteSets, TLC

\* ---------------------------------------------------------------- bounds
MaxHandle == 3      \* entity objects that can exist at once
MaxDate == 3        \* capture timestamps 1..MaxDate
MaxCounter == 2     \* values of an additive counter, 1..MaxCounter
MaxTitle == 2       \* distinct titles, 1..MaxTitle
MaxSnaps == 3       \* snapshots stored in total (fixed-entity specification)
MaxIterSnaps == 3   \* snapshots stored in total (iteration specification)
MaxLifeUrl == 1     \* URLs used by the lifecycle specification
MaxLifeSnaps == 2   \* snapshots stored in total (lifecycle specification)
MaxStoreSnaps == 3  \* snapshots stored in total (store specification)
MaxTag == 2         \* tags and licenses, 1..MaxTag
MaxAddDate == 2     \* capture timestamps of the combine specification
MaxAcc == 4         \* greatest counter an accumulated aggregate may reach
MaxMixedSnaps == 3  \* snapshots stored in total (mixed-class specification)
MaxPullSnaps == 3   \* snapshots stored in total (pull specifications)

\* ------------------------------------------------------------- constants
NoTrack == 0        \* track=None / repository=None of an aggregate
NoTitle == 0        \* title=None of an aggregate
NoOwner == 0        \* owner=None of an aggregate
NoSubtitle == 0     \* subtitle=None of an aggregate
UnknownTitle == 0 - 1   \* "(unknown title)"
NoStore == 0        \* no entry in _samples
NoHandle == [kind |-> "none", url |-> 0, sample |-> 0, live |-> FALSE]
NoSortedSet == [alive |-> FALSE, items |-> <<>>]
NoCluster == [op |-> "none"]
NoList == [of |-> NoCluster, items |-> <<>>]
Zero == [op |-> "zero"]     \* the integer 0 passed to __add__
NoSnapshot == [kind |-> "none"]         \* the program holds no snapshot
Raised == [kind |-> "AssertionError"]   \* an assert statement failed
TypeError == [kind |-> "TypeError"]     \* two clusters were compared with <
NoDate == 0         \* previous_date = None
Exceptions == {Raised, TypeError}
NoIterator == [op |-> "none"]   \* the program holds no iterator
StopIteration == <<>>           \* next() that gives no element

\* the entity classes and, under the same names, their Snapshot classes
Classes == {"github", "soundcloud", "youtube", "tumblr", "wattpad_book", "wattpad_page"}
\* the classes the lifecycle, union and iteration specifications instantiate
Kinds == {"github", "youtube"}
\* the classes the mixed-class specification instantiates side by side: one
\* for each shape of __add__ and __lt__ (SampledIndividual.__lt__ with
\* "or other == 0", own __lt__ with "or other == 0", own __lt__ without)
MixedKinds == {"github", "soundcloud", "youtube"}
HandleIds == 1..MaxHandle
StoreIds == 1..MaxHandle
Urls == 1..MaxHandle
Dates == 1..MaxDate
Counters == 1..MaxCounter
Titles == 1..MaxTitle
Owners == 1..MaxTitle
Tags == 1..MaxTag

VARIABLES
    handles,    \* entity objects: kind, url, self.sample, held by the program?
    stores,     \* SortedSet objects: [alive, items] per store id
    samples,    \* _samples of each class: [kind, url] -> store id
    cluster,    \* the cluster expression the program holds
    out,        \* list(cluster) of the last full iteration
    fresh,      \* no snapshot was stored since `out` was materialized
    built,      \* the snapshot the program got back from its last constructor call
    total,      \* the individual the program accumulates with +
    iterator    \* the iterator of a cluster the program advances with next()

vars == <<handles, stores, samples, cluster, out, fresh, built, total, iterator>>

\* ---------------------------------------------------------------- helpers
Max(a, b) == IF a >= b THEN a ELSE b

Exists(h) == handles[h] # NoHandle

\* self.sample of an entity, as a sequence in SortedSet order
Sample(h) == stores[handles[h].sample].items

\* self.sample[-1]
Latest(h) == Sample(h)[Len(Sample(h))]

\* url.split('/')[-2:] of the URL https://github.com/1/<url>: the URLs of
\* the model share the owner 1 and spell the title of their own number
UrlOwner(url) == 1
UrlTitle(url) == url

\* mutant: a repository without snapshots is named like a track without
GetNameUnknown(h) ==
    IF Sample(h) = <<>> THEN <<UnknownTitle>>
    ELSE IF handles[h].kind = "github" THEN <<Latest(h).owner, Latest(h).title>>
    ELSE <<Latest(h).title>>

\* getName(); a name is the tuple of its parts, "%s/%s" having two
GetName(h) ==
    IF handles[h].kind = "github"
    THEN IF Sample(h) # <<>>
         THEN <<Latest(h).owner, Latest(h).title>>
         ELSE <<UrlOwner(handles[h].url), UrlTitle(handles[h].url)>>
    ELSE IF Sample(h) # <<>> THEN <<Latest(h).title>> ELSE <<UnknownTitle>>

\* GitHubRepository.getOwner
GetOwner(h) ==
    IF Sample(h) # <<>> THEN Latest(h).owner ELSE UrlOwner(handles[h].url)

\* dict(average_ratios).keys(): the languages any Ratios of the sample lists
LanguageNames(languages) ==
    UNION {DOMAIN languages.sample[i] : i \in 1..Len(languages.sample)}

\* GitHubRepository.getLanguages
GetLanguages(h) ==
    IF Sample(h) # <<>> THEN LanguageNames(Latest(h).languages) ELSE {}

\* getTags of GitHubRepository and TumblrPost
GetTags(h) ==
    IF Sample(h) # <<>> THEN Latest(h).tags ELSE {}

\* the current-value queries a class defines
Queries(kind) ==
    CASE kind = "github" -> {"getName", "getOwner", "getTags", "getLanguages"}
      [] kind = "tumblr" -> {"getName", "getTags"}
      [] OTHER -> {"getName"}

\* the attributes of self.sample[-1] a query reads
Reads(kind, q) ==
    CASE q = "getName" -> IF kind = "github" THEN {"owner", "title"} ELSE {"title"}
      [] q = "getOwner" -> {"owner"}
      [] q = "getTags" -> {"tags"}
      [] q = "getLanguages" -> {"languages"}

\* AttributeError: the latest snapshot lacks an attribute the query reads
Raises(h, q) ==
    Sample(h) # <<>> /\ ~(Reads(handles[h].kind, q) \subseteq DOMAIN Latest(h))

\* entity.<query>(), where it does not raise
Query(h, q) ==
    CASE q = "getName" -> GetName(h)
      [] q = "getOwner" -> GetOwner(h)
      [] q = "getTags" -> GetTags(h)
      [] q = "getLanguages" -> GetLanguages(h)

\* hash() of a string, taken to be free of collisions among the few
\* strings of the model
Hash(string) == string

\* self.url: the URLs of two classes are of two sites
Url(h) == <<"https", handles[h].kind, handles[h].url>>

\* __hash__ of an entity class: hash(self.url)
EntityHash(h) == Hash(Url(h))

\* NamedEntity.__hash__, which NamedCluster inherits: hash(self.getName())
NamedEntityHash(name) == Hash(name)

\* NamedEntity.__eq__ on the names of two named entities
NamedEntityEq(name, other) == name = other

\* NamedEntity.__eq__ applied to the track / repository field of two snapshots
TrackEq(t1, t2) ==
    IF t1 = NoTrack \/ t2 = NoTrack
    THEN t1 = NoTrack /\ t2 = NoTrack
    ELSE GetName(t1) = GetName(t2)

\* Snapshot.__eq__; a projection has object.__eq__, and two projections
\* that meet in a merge are two objects
SnapshotEq(a, b) ==
    /\ a.kind = b.kind
    /\ a.kind # "projection"
    /\ TrackEq(a.track, b.track)
    /\ a.date = b.date

\* Language.AverageRatiosProjection.__init__: the languages and the dict of
\* clusters; the ratios in __dict__ are derived from them (ProjectionRatio)
AverageRatiosProjection(languages, clusters) ==
    [kind |-> "projection", languages |-> languages, clusters |-> clusters]

\* Language.AverageRatiosProjection.getDatetime
ProjectionDatetime(p) ==
    CHOOSE d \in {p.clusters[k].date : k \in DOMAIN p.clusters} :
        \A k \in DOMAIN p.clusters : p.clusters[k].date <= d

\* getDatetime() of a sampled individual
GetDatetime(x) == IF x.kind = "projection" THEN ProjectionDatetime(x) ELSE x.date

\* Snapshot.__lt__: SampledIndividual.__lt__ for a GitHub snapshot and a
\* projection, which accepts any sampled individual; the other classes
\* accept their own only
SnapshotLt(a, b) ==
    /\ a.kind \in {"github", "projection"} \/ a.kind = b.kind
    /\ GetDatetime(a) < GetDatetime(b)

\* Language.Ratios of one repository: language name -> ratio; the page of
\* version v lists the languages 1..v
Ratios(v) == [name \in 1..v |-> v]

\* Language.AverageRatios.__init__
AverageRatios(date, sample) == [date |-> date, sample |-> sample]

\* mutant: the aggregate keeps the ratios of the left operand only
AverageRatiosAddLeft(self, other) ==
    AverageRatios(Max(self.date, other.date), self.sample)

\* Language.AverageRatios.__add__ with another AverageRatios
AverageRatiosAdd(self, other) ==
    AverageRatios(Max(self.date, other.date), self.sample \o other.sample)

RECURSIVE SumRatios(_, _)
SumRatios(sample, name) ==
    IF sample = <<>> THEN 0
    ELSE (IF name \in DOMAIN sample[1] THEN sample[1][name] ELSE 0)
            + SumRatios(Tail(sample), name)

RECURSIVE SumOver(_, _)
SumOver(names, sample) ==
    IF names = {} THEN 0
    ELSE LET name == CHOOSE n \in names : TRUE
         IN  SumRatios(sample, name) + SumOver(names \ {name}, sample)

\* __dict__[cluster] of a projection: the sum, over the languages of the
\* projection the cluster knows, of AverageRatios._average(), the sum of the
\* ratios of the language divided by len(sample); kept as the fraction
\* <<numerator, denominator>>
ProjectionRatio(p, key) ==
    <<SumOver(p.languages \cap LanguageNames(p.clusters[key]), p.clusters[key].sample),
      Len(p.clusters[key].sample)>>

\* Language.AverageRatiosProjection.__add__ with another projection;
\* max(self, other) is other only if self < other
ProjectionAdd(self, other) ==
    AverageRatiosProjection(
        self.languages \cup other.languages,
        (IF ProjectionDatetime(self) < ProjectionDatetime(other)
         THEN other ELSE self).clusters)

\* GitHubRepository.Snapshot.__init__: the fields of the object; counter
\* stands for each of watching, stars, forks, issues, pull_requests,
\* projects, commits, branches and releases
GitHubSnapshot(repository, owner, title, date, counter, licenses, languages) ==
    [kind |-> "github", track |-> repository, owner |-> owner, title |-> title,
     date |-> date, counter |-> counter, licenses |-> licenses,
     languages |-> languages]

\* TumblrPost.Snapshot.__init__; counter is notes
TumblrSnapshot(post, title, date, tags, counter) ==
    [kind |-> "tumblr", track |-> post, title |-> title, date |-> date,
     tags |-> tags, counter |-> counter]

\* WattPadPage.Snapshot.__init__; counter stands for reads, votes, comments
WattPadPageSnapshot(page, title, subtitle, date, counter) ==
    [kind |-> "wattpad_page", track |-> page, title |-> title,
     subtitle |-> subtitle, date |-> date, counter |-> counter]

\* Snapshot.__init__ of SoundCloudTrack, YouTubeTrack and WattPadBook;
\* counter stands for each of the additive fields of the class
TrackSnapshot(kind, track, title, date, counter) ==
    [kind |-> kind, track |-> track, title |-> title, date |-> date,
     counter |-> counter]

\* mutant: the aggregate is built for the entity of the left operand
SnapshotAddTracked(self, other) ==
    CASE self.kind = "github" ->
            GitHubSnapshot(self.track, NoOwner, NoTitle, Max(self.date, other.date),
                           self.counter + other.counter,
                           self.licenses \cup other.licenses,
                           AverageRatiosAdd(self.languages, other.languages))
      [] self.kind = "tumblr" ->
            TumblrSnapshot(self.track, NoTitle, self.date, self.tags \cap other.tags,
                           self.counter + other.counter)
      [] self.kind = "wattpad_page" ->
            WattPadPageSnapshot(self.track, NoTitle, NoSubtitle, self.date,
                                self.counter + other.counter)
      [] self.kind = "projection" -> ProjectionAdd(self, other)
      [] OTHER ->
            TrackSnapshot(self.kind, self.track, NoTitle, self.date,
                          self.counter + other.counter)

\* Snapshot.__add__ with another snapshot of the class: the aggregate
SnapshotAdd(self, other) ==
    CASE self.kind = "github" ->
            GitHubSnapshot(NoTrack, NoOwner, NoTitle, Max(self.date, other.date),
                           self.counter + other.counter,
                           self.licenses \cup other.licenses,
                           AverageRatiosAdd(self.languages, other.languages))
      [] self.kind = "tumblr" ->
            TumblrSnapshot(NoTrack, NoTitle, self.date, self.tags \cap other.tags,
                           self.counter + other.counter)
      [] self.kind = "wattpad_page" ->
            WattPadPageSnapshot(NoTrack, NoTitle, NoSubtitle, self.date,
                                self.counter + other.counter)
      [] self.kind = "projection" -> ProjectionAdd(self, other)
      [] OTHER ->
            TrackSnapshot(self.kind, NoTrack, NoTitle, self.date,
                          self.counter + other.counter)

\* the classes whose __add__ returns self when other == 0
ZeroAware == {"github", "soundcloud", "projection"}

\* mutant: an operand of another class is passed over like 0
IndividualAddSkipOther(self, other) ==
    IF other = Zero
    THEN IF self.kind \in ZeroAware THEN self ELSE Raised
    ELSE IF other.kind # self.kind THEN self
    ELSE SnapshotAdd(self, other)

\* Snapshot.__add__ as a whole: the assert on other, then 0 or the aggregate
IndividualAdd(self, other) ==
    IF other = Zero
    THEN IF self.kind \in ZeroAware THEN self ELSE Raised
    ELSE IF other.kind # self.kind THEN Raised
    ELSE SnapshotAdd(self, other)

\* Individual.__radd__
IndividualRadd(self, other) == IndividualAdd(self, other)

\* ------------------------------------------------------------ SortedSet
\* hash((track, date)) of two snapshots agree; hash(track) is hash(url)
SnapshotHashEq(a, b) ==
    /\ a.date = b.date
    /\ handles[a.track].kind = handles[b.track].kind
    /\ handles[a.track].url = handles[b.track].url

\* value in self._set
SortedSetContains(items, s) ==
    \E i \in 1..Len(items) : SnapshotHashEq(items[i], s) /\ SnapshotEq(items[i], s)

\* bisect_right under Snapshot.__lt__: number of leading items not after s
BisectRight(items, s) ==
    Cardinality({i \in 1..Len(items) :
        \A j \in 1..i : ~SnapshotLt(s, items[j])})

\* mutant: a new value goes to the end of the list
SortedSetAppend(items, s) ==
    IF SortedSetContains(items, s) THEN items ELSE items \o <<s>>

\* SortedSet.add: a value already in the set is left alone
SortedSetAdd(items, s) ==
    IF SortedSetContains(items, s)
    THEN items
    ELSE LET pos == BisectRight(items, s)
         IN  SubSeq(items, 1, pos) \o <<s>> \o SubSeq(items, pos + 1, Len(items))

\* -------------------------------------------------------------- clusters
Leaf(h) == [op |-> "leaf", h |-> h]

\* LazyUnion.__init__
LazyUnion(first, second) == [op |-> "union", first |-> first, second |-> second]

\* NamedCluster.__init__
NamedCluster(name, c) == [op |-> "named", name |-> name, cluster |-> c]

\* NamedCluster.getName
NamedClusterGetName(c) == c.name

\* mutant: the neutral element is not recognised
ClusterAddAlways(self, other) == LazyUnion(self, other)

\* Cluster.__add__: 0 is the neutral element
ClusterAdd(self, other) ==
    IF other = Zero THEN self ELSE LazyUnion(self, other)

\* Cluster.__radd__: other + self, when other cannot add a cluster itself
ClusterRadd(self, other) == ClusterAdd(self, other)

\* sum(clusters): 0 + c1 + c2 + ... ; int + Cluster falls back to __radd__
RECURSIVE SumFrom(_, _)
SumFrom(acc, cs) ==
    IF cs = <<>> THEN acc
    ELSE SumFrom(IF acc = Zero THEN ClusterRadd(cs[1], acc) ELSE ClusterAdd(acc, cs[1]),
                 Tail(cs))

Sum(cs) == SumFrom(Zero, cs)

\* the entities a cluster expression refers to
RECURSIVE Leaves(_)
Leaves(c) ==
    IF c.op = "leaf" THEN {c.h}
    ELSE IF c.op = "union" THEN Leaves(c.first) \cup Leaves(c.second)
    ELSE IF c.op = "named" THEN Leaves(c.cluster)
    ELSE {}

\* (individual, 0, 1) < (individual', 1, 0): tuples compare on the first
\* position whose elements are not ==
TupleLt(a, ia, b, ib) ==
    IF SnapshotEq(a, b) THEN ia < ib ELSE SnapshotLt(a, b)

\* mutant: the constituents are chained instead of merged
MergeChained(first, second, cur) ==
    [i \in 1..Len(first) |-> [ind |-> first[i], src |-> 0]] \o
    [i \in 1..Len(second) |-> [ind |-> second[i], src |-> 1]]

\* heapq.merge of two iterables: after heapify / heapreplace the entry that
\* was just (re)filled stays on top only if it is < the other entry; an
\* exception of a constituent leaves merge when merge asks for the element
RECURSIVE Merge(_, _, _)
Merge(first, second, cur) ==
    IF first = <<>> THEN [i \in 1..Len(second) |-> [ind |-> second[i], src |-> 1]]
    ELSE IF second = <<>> THEN [i \in 1..Len(first) |-> [ind |-> first[i], src |-> 0]]
    ELSE IF first[1] \in Exceptions THEN <<[ind |-> first[1], src |-> 0]>>
    ELSE IF second[1] \in Exceptions THEN <<[ind |-> second[1], src |-> 1]>>
    ELSE LET top == IF cur = 0
                    THEN (IF TupleLt(first[1], 0, second[1], 1) THEN 0 ELSE 1)
                    ELSE (IF TupleLt(second[1], 1, first[1], 0) THEN 1 ELSE 0)
         IN  IF top = 0
             THEN <<[ind |-> first[1], src |-> 0]>> \o Merge(Tail(first), second, 0)
             ELSE <<[ind |-> second[1], src |-> 1]>> \o Merge(first, Tail(second), 1)

\* mutant: the last individual is always remembered in individuals[0]
RECURSIVE CarryIndexZero(_, _)
CarryIndexZero(merged, individuals) ==
    IF merged = <<>> THEN <<>>
    ELSE IF merged[1].ind \in Exceptions THEN <<merged[1].ind>>
    ELSE LET first_individual == merged[1].ind
             second_individual == individuals[2 - merged[1].src]
             yielded == IF second_individual # <<>>
                        THEN IndividualAdd(first_individual, second_individual[1])
                        ELSE first_individual
         IN  IF yielded = Raised THEN <<Raised>> ELSE <<yielded>> \o
             CarryIndexZero(Tail(merged), [individuals EXCEPT ![1] = <<first_individual>>])

\* mutant: an individual is combined with the last individual of the other
\* constituent only if the two are of one timestamp
RECURSIVE CarrySameDate(_, _)
CarrySameDate(merged, individuals) ==
    IF merged = <<>> THEN <<>>
    ELSE IF merged[1].ind \in Exceptions THEN <<merged[1].ind>>
    ELSE LET first_individual == merged[1].ind
             second_individual == individuals[2 - merged[1].src]
             yielded == IF second_individual # <<>>
                           /\ second_individual[1].date = first_individual.date
                        THEN IndividualAdd(first_individual, second_individual[1])
                        ELSE first_individual
         IN  IF yielded = Raised THEN <<Raised>> ELSE <<yielded>> \o
             CarrySameDate(Tail(merged),
                   [individuals EXCEPT ![merged[1].src + 1] = <<first_individual>>])

\* body of the for loop of LazyUnion.__iter__; individuals[k] is <<>> for None.
\* The sequence of an iteration that raised ends with Raised, in the place
\* of the individual the consumer did not get
RECURSIVE Carry(_, _)
Carry(merged, individuals) ==
    IF merged = <<>> THEN <<>>
    ELSE IF merged[1].ind \in Exceptions THEN <<merged[1].ind>>
    ELSE LET first_individual == merged[1].ind
             second_individual == individuals[2 - merged[1].src]
             yielded == IF second_individual # <<>>
                        THEN IndividualAdd(first_individual, second_individual[1])
                        ELSE first_individual
         IN  IF yielded = Raised THEN <<Raised>> ELSE <<yielded>> \o
             Carry(Tail(merged),
                   [individuals EXCEPT ![merged[1].src + 1] = <<first_individual>>])

\* mutant: the iteration ends as soon as one constituent has nothing left
LazyUnionIterZip(first, second) ==
    IF first = <<>> \/ second = <<>> THEN <<>>
    ELSE Carry(Merge(first, second, 0), <<<<>>, <<>>>>)

\* LazyUnion.__iter__ over the sequences of its two constituents
LazyUnionIter(first, second) == Carry(Merge(first, second, 0), <<<<>>, <<>>>>)

\* RandomVariable.__iter__
RandomVariableIter(h) == Sample(h)

\* mutant: the wrapper hands out an iterator that was advanced once
NamedClusterIterAdvanced(iterated) ==
    IF iterated = <<>> THEN <<>> ELSE Tail(iterated)

\* NamedCluster.__iter__: the iterator of the wrapped cluster itself
NamedClusterIter(iterated) == iterated

\* ------------------------------------------------------------- Language
\* Language.__init__; clusters is the list(clusters) it keeps
Language(language, clusters) ==
    [op |-> "language", language |-> language, clusters |-> clusters]

\* getName() of the cluster at a place of the list, for the clusters that
\* are named entities: repositories and named clusters
ClusterName(c) == IF c.op = "leaf" THEN GetName(c.h) ELSE <<c.name>>

\* cluster == cluster of the clusters at the places i and j of the list:
\* NamedEntity.__eq__ where both have it, else identity of the two objects
ClusterEq(c, i, d, j) ==
    IF c.op \in {"leaf", "named"} /\ d.op \in {"leaf", "named"}
    THEN NamedEntityEq(ClusterName(c), ClusterName(d))
    ELSE i = j

\* the key under which a dict keeps the cluster at place i of the list: two
\* keys are one if their hashes agree and they are ==; the hash of a
\* repository is the one of its URL, the hash of a named cluster the one of
\* its name, and a union is itself only
DictKey(c, i) ==
    IF c.op = "leaf" THEN [of |-> "entity", id |-> <<handles[c.h].url>> \o GetName(c.h)]
    ELSE IF c.op = "named" THEN [of |-> "named", id |-> <<c.name>>]
    ELSE [of |-> "object", id |-> <<i>>]

\* heapq.merge of the two lists of (individual, cluster) tuples: equal
\* tuples fall back on the order of the lists, tuples with == individuals
\* and unequal clusters compare the clusters, which have no <
RECURSIVE TaggedMerge(_, _, _, _)
TaggedMerge(clusters, first, second, cur) ==
    IF first = <<>> THEN [i \in 1..Len(second) |-> [ind |-> second[i], src |-> 2]]
    ELSE IF second = <<>> THEN [i \in 1..Len(first) |-> [ind |-> first[i], src |-> 1]]
    ELSE IF SnapshotEq(first[1], second[1])
            /\ ~ClusterEq(clusters[1], 1, clusters[2], 2)
    THEN <<[ind |-> TypeError, src |-> 0]>>
    ELSE LET eq == SnapshotEq(first[1], second[1])
             top == IF cur = 1
                    THEN (IF eq \/ SnapshotLt(first[1], second[1]) THEN 1 ELSE 2)
                    ELSE (IF ~eq /\ SnapshotLt(second[1], first[1]) THEN 2 ELSE 1)
         IN  IF top = 1
             THEN <<[ind |-> first[1], src |-> 1]>>
                    \o TaggedMerge(clusters, Tail(first), second, 1)
             ELSE <<[ind |-> second[1], src |-> 2]>>
                    \o TaggedMerge(clusters, first, Tail(second), 2)

\* the for loop of Language.__iter__ over the merged tuples; future_yield is
\* <<>> for None
RECURSIVE LanguageFold(_, _, _, _, _)
LanguageFold(self, merged, previous_date, previous_languages, future_yield) ==
    IF merged = <<>> THEN future_yield
    ELSE IF merged[1].ind \in Exceptions THEN <<merged[1].ind>>
    ELSE IF merged[1].ind.kind # "github" THEN <<Raised>>
    ELSE LET snapshot == merged[1].ind
             key == DictKey(self.clusters[merged[1].src], merged[1].src)
             languages == (key :> snapshot.languages) @@ previous_languages
             projection == AverageRatiosProjection({self.language}, languages)
             date == IF previous_date = NoDate THEN snapshot.date ELSE previous_date
         IN  IF snapshot.date > date
             THEN future_yield \o
                  LanguageFold(self, Tail(merged), snapshot.date, languages,
                               <<projection>>)
             ELSE IF future_yield = <<>>
                     \/ Cardinality(DOMAIN projection.clusters)
                            > Cardinality(DOMAIN future_yield[1].clusters)
             THEN LanguageFold(self, Tail(merged), date, languages,
                               <<projection>>)
             ELSE LanguageFold(self, Tail(merged), date, languages,
                               future_yield)

\* Language.__iter__ over the lists of its clusters, one or two of them
LanguageIter(self, lists) ==
    LanguageFold(self,
                 IF Len(lists) = 1
                 THEN [i \in 1..Len(lists[1]) |-> [ind |-> lists[1][i], src |-> 1]]
                 ELSE TaggedMerge(self.clusters, lists[1], lists[2], 1),
                 NoDate, <<>>, <<>>)

\* list(cluster)
RECURSIVE ClusterIter(_)
ClusterIter(c) ==
    IF c.op = "leaf" THEN RandomVariableIter(c.h)
    ELSE IF c.op = "named" THEN NamedClusterIter(ClusterIter(c.cluster))
    ELSE IF c.op = "language"
    THEN LanguageIter(c, [i \in 1..Len(c.clusters) |-> ClusterIter(c.clusters[i])])
    ELSE LazyUnionIter(ClusterIter(c.first), ClusterIter(c.second))

\* ------------------------------------------------------------ iterators
\* iter(cluster): the generator object, none of whose body has run; given
\* counts the elements it has handed out. NamedCluster.__iter__ returns the
\* iterator of the wrapped cluster
RECURSIVE IterOf(_)
IterOf(c) ==
    IF c.op = "leaf" THEN [op |-> "leaf", h |-> c.h, given |-> 0]
    ELSE IF c.op = "named" THEN IterOf(c.cluster)
    ELSE [op |-> "union", first |-> IterOf(c.first), second |-> IterOf(c.second),
          phase |-> "new", heads |-> <<<<>>, <<>>>>, top |-> 0,
          individuals |-> <<<<>>, <<>>>>, given |-> 0]

RECURSIVE Advance(_)
RECURSIVE MergeNext(_)

\* mutant: the constituent is advanced twice for every element taken
PullTwice(st) ==
    LET r == Advance(st)
    IN  [val |-> r.val, st |-> Advance(r.st).st]

\* next() on the generator expression over a constituent,
\* ((individual, 0, 1) for individual in self.first): one next() on the
\* iterator of the constituent
Pull(st) == Advance(st)

\* RandomVariable.__iter__: for individual in self.sample: yield individual
RandomVariableNext(st) ==
    IF st.given < Len(Sample(st.h))
    THEN [val |-> <<Sample(st.h)[st.given + 1]>>, st |-> [st EXCEPT !.given = @ + 1]]
    ELSE [val |-> StopIteration, st |-> st]

\* the constituent of the union that feeds heap entry src
Constituent(st, src) == IF src = 0 THEN st.first ELSE st.second

\* the union after its constituent src was advanced with result r
Advanced(st, src, r) ==
    IF src = 0 THEN [st EXCEPT !.first = r.st] ELSE [st EXCEPT !.second = r.st]

\* mutant: merge ends when the first of its iterables is exhausted
HeapPopStop(st, src) ==
    [val |-> StopIteration, st |-> [st EXCEPT !.phase = "done"]]

\* heapq.merge when next() of the entry on top raised StopIteration: the
\* entry is popped, and the one entry left gives its value; from then on
\* merge hands through the iterator of that entry (src)
HeapPop(st, src) ==
    [val |-> <<[ind |-> st.heads[src + 1][1], src |-> src]>>,
     st |-> [st EXCEPT !.phase = "tail", !.top = src]]

\* the first next() on merge(first, second), once it has taken r0 and r1
\* from its two iterables: the entries are heapified and the top is given
Heapify(st, r0, r1) ==
    LET base == [st EXCEPT !.first = r0.st, !.second = r1.st,
                           !.heads = <<r0.val, r1.val>>]
    IN  IF r0.val # StopIteration /\ r1.val # StopIteration
        THEN LET top == IF TupleLt(r0.val[1], 0, r1.val[1], 1) THEN 0 ELSE 1
             IN  [val |-> <<[ind |-> base.heads[top + 1][1], src |-> top]>>,
                  st |-> [base EXCEPT !.phase = "both", !.top = top]]
        ELSE IF r0.val = StopIteration /\ r1.val = StopIteration
        THEN [val |-> StopIteration, st |-> [base EXCEPT !.phase = "done"]]
        ELSE HeapPop(base, IF r0.val # StopIteration THEN 0 ELSE 1)

\* a later next() while both iterables are in the heap, once the iterable
\* of the entry given last (st.top) has answered r: heapreplace leaves the
\* refilled entry on top only if it is < the other entry
HeapReplace(st, r) ==
    LET cur == st.top
        other == 1 - cur
        base == [Advanced(st, cur, r) EXCEPT !.heads[cur + 1] = r.val]
    IN  IF r.val = StopIteration THEN HeapPop(base, other)
        ELSE LET top == IF TupleLt(r.val[1], cur, st.heads[other + 1][1], other)
                        THEN cur ELSE other
             IN  [val |-> <<[ind |-> base.heads[top + 1][1], src |-> top]>>,
                  st |-> [base EXCEPT !.top = top]]

\* yield from the one iterable that is left, which has answered r
YieldFrom(st, r) ==
    LET base == Advanced(st, st.top, r)
    IN  IF r.val = StopIteration
        THEN [val |-> StopIteration, st |-> [base EXCEPT !.phase = "done"]]
        ELSE [val |-> <<[ind |-> r.val[1], src |-> st.top]>>,
              st |-> [base EXCEPT !.heads[st.top + 1] = r.val]]

\* one next() on merge(first, second). phase "new": nothing has run, and
\* merge takes one element of each iterable, the first first. phase "both":
\* the entry of st.top was given and is refilled. phase "tail": one iterable
\* is left. Each answer r of an iterable is the one element of the set of
\* what its next() gives, so that it is the result of one call
MergeNext(st) ==
    CASE st.phase = "new" ->
            CHOOSE given \in {Heapify(st, r0, r1) :
                                r0 \in {Pull(st.first)}, r1 \in {Pull(st.second)}} : TRUE
      [] st.phase = "both" ->
            CHOOSE given \in {HeapReplace(st, r) :
                                r \in {Pull(Constituent(st, st.top))}} : TRUE
      [] st.phase = "tail" ->
            CHOOSE given \in {YieldFrom(st, r) :
                                r \in {Pull(Constituent(st, st.top))}} : TRUE
      [] OTHER -> [val |-> StopIteration, st |-> st]

\* the body of the for loop of LazyUnion.__iter__ for the element merge
\* gave, up to its yield, and the assignment to individuals that follows
LazyUnionYield(merged) ==
    IF merged.val = StopIteration THEN merged
    ELSE LET first_individual == merged.val[1].ind
             index == merged.val[1].src
             second_individual == merged.st.individuals[2 - index]
             yielded == IF second_individual # <<>>
                        THEN IndividualAdd(first_individual, second_individual[1])
                        ELSE first_individual
         IN  [val |-> <<yielded>>,
              st |-> [merged.st EXCEPT !.individuals[index + 1] = <<first_individual>>,
                                       !.given = @ + 1]]

\* one next() on the generator of LazyUnion.__iter__
LazyUnionNext(st) ==
    CHOOSE yielded \in {LazyUnionYield(merged) : merged \in {MergeNext(st)}} : TRUE

\* next(iterator)
Advance(st) ==
    IF st.op = "leaf" THEN RandomVariableNext(st) ELSE LazyUnionNext(st)

\* --------------------------------------------------- object reclamation
\* the entity an individual refers to, if it is a snapshot of one
TrackOf(x) == IF "track" \in DOMAIN x THEN x.track ELSE NoTrack

\* entities the program can still reach without going through a store
Roots(hs, cl, o, b, a) ==
    ({h \in HandleIds : hs[h].live}
        \cup Leaves(cl)
        \cup {o.items[i].track : i \in 1..Len(o.items)}
        \cup {TrackOf(b), TrackOf(a)}) \ {NoTrack}

\* reference counting: an object nothing refers to is freed at once, and
\* what it referred to may follow; a cycle entity -> store -> snapshot ->
\* entity is left for the cycle collector
RECURSIVE RefcountFree(_, _, _)
RefcountFree(hs, ss, roots) ==
    LET held == roots \cup
                {h \in HandleIds : \E s \in StoreIds : ss[s].alive /\
                    \E i \in 1..Len(ss[s].items) : ss[s].items[i].track = h}
        deadH == {h \in HandleIds : hs[h] # NoHandle /\ h \notin held}
        deadS == {s \in StoreIds : ss[s].alive /\
                    ~\E h \in HandleIds : hs[h] # NoHandle /\ hs[h].sample = s}
    IN  IF deadH = {} /\ deadS = {}
        THEN [hs |-> hs, ss |-> ss]
        ELSE RefcountFree([h \in HandleIds |-> IF h \in deadH THEN NoHandle ELSE hs[h]],
                          [s \in StoreIds |-> IF s \in deadS THEN NoSortedSet ELSE ss[s]],
                          roots)

\* entities reachable from the roots through entity -> store -> snapshot
RECURSIVE Reachable(_, _, _)
Reachable(hs, ss, reached) ==
    LET more == {h \in HandleIds : hs[h] # NoHandle /\
                    \E r \in reached : \E i \in 1..Len(ss[hs[r].sample].items) :
                        ss[hs[r].sample].items[i].track = h}
    IN  IF more \subseteq reached THEN reached
        ELSE Reachable(hs, ss, reached \cup more)

\* gc.collect(): everything unreachable goes, cycles included
CycleFree(hs, ss, roots) ==
    LET keep == Reachable(hs, ss, roots)
        hs1 == [h \in HandleIds |-> IF h \in keep THEN hs[h] ELSE NoHandle]
    IN  [hs |-> hs1,
         ss |-> [s \in StoreIds |->
                    IF \E h \in keep : hs[h].sample = s THEN ss[s] ELSE NoSortedSet]]

\* mutant: a plain dict, whose entries stay
StrongValues(sm, ss) == sm

\* WeakValueDictionary: an entry disappears with its value
WeakValues(sm, ss) ==
    [k \in DOMAIN sm |-> IF sm[k] # NoStore /\ ss[sm[k]].alive THEN sm[k] ELSE NoStore]

\* the end of every statement: reference counts settle
Commit(hs, ss, sm, cl, o, fr, b, a) ==
    LET r == RefcountFree(hs, ss, Roots(hs, cl, o, b, a))
    IN  /\ handles' = r.hs
        /\ stores' = r.ss
        /\ samples' = WeakValues(sm, r.ss)
        /\ cluster' = cl
        /\ out' = o
        /\ fresh' = fr
        /\ built' = b
        /\ total' = a
        /\ iterator' = iterator

\* --------------------------------------------------------------- actions
\* mutant: the lookup never finds the URL
SamplesLookupMiss(sm, kind, url) == NoStore

\* url in _samples / _samples[url]
SamplesLookup(sm, kind, url) == sm[<<kind, url>>]

FreeHandle == CHOOSE h \in HandleIds : ~Exists(h) /\ \A g \in HandleIds : g < h => Exists(g)
FreeStore == CHOOSE s \in StoreIds : ~stores[s].alive /\ \A t \in StoreIds : t < s => stores[t].alive

\* GitHubRepository(url), YouTubeTrack(url), ...
EntityInit(kind, url) ==
    /\ \E h \in HandleIds : ~Exists(h)
    /\ LET h == FreeHandle
           found == SamplesLookup(samples, kind, url)
           s == IF found # NoStore THEN found ELSE FreeStore
       IN  Commit([handles EXCEPT ![h] = [kind |-> kind, url |-> url, sample |-> s, live |-> TRUE]],
                  IF found # NoStore THEN stores
                  ELSE [stores EXCEPT ![s] = [alive |-> TRUE, items |-> <<>>]],
                  [samples EXCEPT ![<<kind, url>>] = s],
                  cluster, out, fresh, built, total)

RECURSIVE CountFrom(_)
CountFrom(s) == IF s > MaxHandle THEN 0 ELSE Len(stores[s].items) + CountFrom(s + 1)

\* snapshots held by all stores together
StoredCount == CountFrom(1)

\* the snapshot of version v a page of entity h gives at a date: from_html
\* reads owner, title, tags, licenses and languages off the page
FromHtml(h, v, date, counter, tags) ==
    CASE handles[h].kind = "github" ->
            GitHubSnapshot(h, v, v, date, counter, tags,
                           AverageRatios(date, <<Ratios(v)>>))
      [] handles[h].kind = "tumblr" -> TumblrSnapshot(h, v, date, tags, counter)
      [] handles[h].kind = "wattpad_page" -> WattPadPageSnapshot(h, v, v, date, counter)
      [] OTHER -> TrackSnapshot(handles[h].kind, h, v, date, counter)

\* entity._add(snapshot): self.sample.add(snapshot)
EntityAdd(ss, self) ==
    [ss EXCEPT ![handles[self.track].sample].items = SortedSetAdd(@, self)]

\* the body of Snapshot.__init__ for the object self, whose result the
\* caller keeps as b: if self.track: self.track._add(self)
Construct(self, b) ==
    /\ self.track # NoTrack =>
            Exists(self.track) /\ handles[self.track].live
                /\ handles[self.track].kind = self.kind
    /\ LET ss == IF self.track # NoTrack THEN EntityAdd(stores, self) ELSE stores
       IN  Commit(handles, ss, samples, cluster, out, fresh /\ ss = stores, b, total)

\* Snapshot(track, title, date, ...) as a statement: the result is dropped
SnapshotInit(self) == Construct(self, built)

\* mutant: the constructed snapshot does not reach the caller
SnapshotAssignDropped(self) == Construct(self, built)

\* built = Snapshot(track, title, date, ...)
SnapshotAssign(self) == Construct(self, self)

\* del entity: the program lets go of its reference
Drop(h) ==
    /\ Exists(h) /\ handles[h].live
    /\ Commit([handles EXCEPT ![h].live = FALSE], stores, samples, cluster, out, fresh,
              built, total)

\* a run of the cycle collector
Collect ==
    LET r == CycleFree(handles, stores, Roots(handles, cluster, out, built, total))
    IN  /\ handles' = r.hs
        /\ stores' = r.ss
        /\ samples' = WeakValues(samples, r.ss)
        /\ UNCHANGED <<cluster, out, fresh, built, total, iterator>>

RECURSIVE Size(_)
Size(c) ==
    IF c.op = "union" THEN Size(c.first) + Size(c.second)
    ELSE IF c.op = "named" THEN Size(c.cluster)
    ELSE 1

\* what the program can name as a cluster: an entity it holds, or its cluster
Operands ==
    {Leaf(h) : h \in {g \in HandleIds : handles[g].live}}
        \cup (IF cluster = NoCluster THEN {} ELSE {cluster})

\* cluster = self + other
Add(self, other) ==
    /\ other # Zero => Size(self) + Size(other) <= MaxHandle
    /\ Commit(handles, stores, samples, ClusterAdd(self, other), out, fresh, built, total)

\* cluster = NamedCluster(name, cluster)
Wrap(name) ==
    /\ cluster # NoCluster /\ cluster.op # "named"
    /\ Commit(handles, stores, samples, NamedCluster(name, cluster), out, fresh,
              built, total)

\* every snapshot some store holds
AllStored ==
    UNION {{stores[s].items[i] : i \in 1..Len(stores[s].items)} : s \in StoreIds}

\* the stores once Snapshot.__init__ has run for the individual x that a +
\* returned: + hands back an operand as it is, or an object it has just
\* constructed, and the constructor ends with
\* if self.track: self.track._add(self)
Registered(ss, x) ==
    IF x \in AllStored \/ TrackOf(x) = NoTrack THEN ss ELSE EntityAdd(ss, x)

\* the stores once every individual of a sequence has been constructed
RECURSIVE RegisteredAll(_, _)
RegisteredAll(ss, seq) ==
    IF seq = <<>> THEN ss ELSE RegisteredAll(Registered(ss, seq[1]), Tail(seq))

\* total = total + x; 0 + x is int.__add__ giving up and x.__radd__(0)
PlusRight(x) ==
    /\ total # Raised
    /\ total # Zero => total.counter + x.counter <= MaxAcc
    /\ LET sum == IF total = Zero THEN IndividualRadd(x, total)
                  ELSE IndividualAdd(total, x)
       IN  Commit(handles, Registered(stores, sum), samples, cluster, out, fresh,
                  built, sum)

\* total = x + total
PlusLeft(x) ==
    /\ total # Raised
    /\ total # Zero => total.counter + x.counter <= MaxAcc
    /\ LET sum == IndividualAdd(x, total)
       IN  Commit(handles, Registered(stores, sum), samples, cluster, out, fresh,
                  built, sum)

\* total = 0
Reset ==
    /\ total # Zero
    /\ Commit(handles, stores, samples, cluster, out, fresh, built, Zero)

\* mutant: a cluster that was iterated before hands out its earlier result
ListOfCached(c) ==
    IF out.of = c THEN out ELSE [of |-> c, items |-> ClusterIter(c)]

\* [individual for individual in cluster]
ListOf(c) == [of |-> c, items |-> ClusterIter(c)]

\* out = list(c); the aggregates of the list were constructed on the way
Iterate(c) ==
    LET list == ListOf(c)
    IN  Commit(handles, RegisteredAll(stores, list.items), samples, cluster, list,
               TRUE, built, total)

\* iterator = iter(c): the consumer asks for the iterator of a cluster and
\* starts a list of what it receives
Begin(c) ==
    /\ iterator = NoIterator
    /\ iterator' = IterOf(c)
    /\ out' = [of |-> c, items |-> <<>>]
    /\ UNCHANGED <<handles, stores, samples, cluster, fresh, built, total>>

\* out.append(next(iterator)); StopIteration ends the iteration
PullNext ==
    /\ iterator # NoIterator /\ iterator.phase # "done"
    /\ \E r \in {Advance(iterator)} :
           /\ iterator' = r.st
           /\ out' = [out EXCEPT !.items = @ \o r.val]
           /\ stores' = RegisteredAll(stores, r.val)
    /\ UNCHANGED <<handles, samples, cluster, fresh, built, total>>

\* del iterator, out before the iteration has ended
Abandon ==
    /\ iterator # NoIterator /\ iterator.phase # "done"
    /\ iterator' = NoIterator
    /\ out' = NoList
    /\ UNCHANGED <<handles, stores, samples, cluster, fresh, built, total>>

\* del iterator, out after StopIteration
Finish ==
    /\ iterator # NoIterator /\ iterator.phase = "done"
    /\ iterator' = NoIterator
    /\ out' = NoList
    /\ UNCHANGED <<handles, stores, samples, cluster, fresh, built, total>>

\* ------------------------------------------------------- specifications
Keys == Classes \X Urls

\* entities come and go: the registry and the life of the stores
Init ==
    /\ handles = [h \in HandleIds |-> NoHandle]
    /\ stores = [s \in StoreIds |-> NoSortedSet]
    /\ samples = [k \in Keys |-> NoStore]
    /\ cluster = NoCluster
    /\ out = NoList
    /\ fresh = TRUE
    /\ built = NoSnapshot
    /\ total = Zero
    /\ iterator = NoIterator

Next ==
    \/ \E kind \in Kinds, url \in 1..MaxLifeUrl : EntityInit(kind, url)
    \/ \E h \in HandleIds, date \in Dates :
            /\ StoredCount < MaxLifeSnaps
            /\ Exists(h) /\ SnapshotInit(FromHtml(h, 1, date, 1, {}))
    \/ \E h \in HandleIds : Drop(h)
    \/ Collect
    \/ \E h \in HandleIds : handles[h].live /\ Iterate(Leaf(h))

Spec == Init /\ [][Next]_vars

\* MaxHandle entities of one kind with distinct URLs, held for good
InitUnion ==
    /\ \E kind \in Kinds :
        /\ handles = [h \in HandleIds |->
                        [kind |-> kind, url |-> h, sample |-> h, live |-> TRUE]]
        /\ samples = [k \in Keys |-> IF k[1] = kind THEN k[2] ELSE NoStore]
    /\ stores = [s \in StoreIds |-> [alive |-> TRUE, items |-> <<>>]]
    /\ cluster = NoCluster
    /\ out = NoList
    /\ fresh = TRUE
    /\ built = NoSnapshot
    /\ total = Zero
    /\ iterator = NoIterator

\* snapshots arrive in any order: the algebra of the unions over the stores
NextUnion ==
    \E h \in HandleIds, title \in Titles, date \in Dates, counter \in Counters :
        StoredCount < MaxSnaps /\ SnapshotInit(FromHtml(h, title, date, counter, {}))

SpecUnion == InitUnion /\ [][NextUnion]_vars

\* the program builds a cluster, may give it a name, then iterates it again
\* and again while snapshots arrive
NextIter ==
    \/ \E h \in HandleIds, date \in Dates :
            StoredCount < MaxIterSnaps /\ SnapshotInit(FromHtml(h, 1, date, 1, {}))
    \/ \E self \in Operands, other \in Operands \cup {Zero} :
            /\ out = NoList
            /\ cluster # NoCluster => cluster.op # "named"
            /\ Add(self, other)
    \/ cluster # NoCluster /\ Iterate(cluster)
    \/ \E name \in Titles : out = NoList /\ Wrap(name)

SpecIter == InitUnion /\ [][NextIter]_vars

\* MaxHandle entities of any one class with distinct URLs, held for good
InitStore ==
    /\ \E kind \in Classes :
        /\ handles = [h \in HandleIds |->
                        [kind |-> kind, url |-> h, sample |-> h, live |-> TRUE]]
        /\ samples = [k \in Keys |-> IF k[1] = kind THEN k[2] ELSE NoStore]
    /\ stores = [s \in StoreIds |-> [alive |-> TRUE, items |-> <<>>]]
    /\ cluster = NoCluster
    /\ out = NoList
    /\ fresh = TRUE
    /\ built = NoSnapshot
    /\ total = Zero
    /\ iterator = NoIterator

\* pages of any version arrive in any order of their dates, dates the store
\* has already seen included, and the program keeps the snapshot it built;
\* built = x + y builds an aggregate, a snapshot without an entity
NextStore ==
    \/ \E h \in HandleIds, v \in Titles, date \in Dates :
            StoredCount < MaxStoreSnaps /\ SnapshotAssign(FromHtml(h, v, date, v, {v}))
    \/ \E x \in AllStored, y \in AllStored : SnapshotAssign(SnapshotAdd(x, y))

SpecStore == InitStore /\ [][NextStore]_vars

\* the classes whose snapshots carry a set of tags or licenses
Tagged == {"github", "tumblr"}

\* every entity gets at most one snapshot, of any date, counter and tags,
\* and the program sums stored snapshots from either side, starting at 0
NextAdd ==
    \/ \E h \in HandleIds, date \in 1..MaxAddDate, counter \in Counters,
            tags \in SUBSET Tags :
            /\ Sample(h) = <<>>
            /\ tags # {} => handles[h].kind \in Tagged
            /\ SnapshotInit(FromHtml(h, counter, date, counter, tags))
    \/ \E x \in AllStored : PlusRight(x)
    \/ \E x \in AllStored : PlusLeft(x)
    \/ Reset

SpecAdd == InitStore /\ [][NextAdd]_vars

\* MaxHandle entities with distinct URLs, each of any class of MixedKinds
InitMixed ==
    /\ \E kinds \in [HandleIds -> MixedKinds] :
        /\ handles = [h \in HandleIds |->
                        [kind |-> kinds[h], url |-> h, sample |-> h, live |-> TRUE]]
        /\ samples = [k \in Keys |-> IF kinds[k[2]] = k[1] THEN k[2] ELSE NoStore]
    /\ stores = [s \in StoreIds |-> [alive |-> TRUE, items |-> <<>>]]
    /\ cluster = NoCluster
    /\ out = NoList
    /\ fresh = TRUE
    /\ built = NoSnapshot
    /\ total = Zero
    /\ iterator = NoIterator

\* snapshots of the classes arrive, and the program adds stored snapshots of
\* whatever class to its total
NextMixed ==
    \/ \E h \in HandleIds, date \in Dates :
            StoredCount < MaxMixedSnaps /\ SnapshotInit(FromHtml(h, 1, date, 1, {}))
    \/ \E x \in AllStored : PlusRight(x)
    \/ Reset

SpecMixed == InitMixed /\ [][NextMixed]_vars

\* the unions a consumer iterates step by step: of two entities, and of such
\* a union with an entity
PullSet ==
    LET leaves == {Leaf(h) : h \in HandleIds}
        pairs == {LazyUnion(a, b) : a \in leaves, b \in leaves}
    IN  pairs \cup {LazyUnion(p, l) : p \in pairs, l \in leaves}
              \cup {LazyUnion(l, p) : l \in leaves, p \in pairs}

\* snapshots arrive while no iteration is under way; a consumer iterates a
\* union element by element and may stop at any point
NextPull ==
    \/ \E h \in HandleIds, date \in Dates :
            /\ iterator = NoIterator
            /\ StoredCount < MaxPullSnaps
            /\ SnapshotInit(FromHtml(h, 1, date, 1, {}))
    \/ \E c \in PullSet : Begin(c)
    \/ PullNext
    \/ Abandon
    \/ Finish

SpecPull == InitUnion /\ [][NextPull]_vars

\* the consumer is a for loop: it calls next() until StopIteration
NextConsume ==
    \/ \E h \in HandleIds, date \in Dates :
            /\ iterator = NoIterator
            /\ StoredCount < MaxPullSnaps
            /\ SnapshotInit(FromHtml(h, 1, date, 1, {}))
    \/ \E c \in PullSet : Begin(c)
    \/ PullNext
    \/ Finish

SpecConsume == InitUnion /\ [][NextConsume]_vars /\ WF_vars(PullNext)

\* ================================================================ claims
\* the clusters the statements below range over: every entity, every union
\* of two entities and every union of a union with an entity
LeafSet == {Leaf(h) : h \in {g \in HandleIds : Exists(g)}}
PairSet == {LazyUnion(a, b) : a \in LeafSet, b \in LeafSet}
UnionSet ==
    PairSet \cup {LazyUnion(p, l) : p \in PairSet, l \in LeafSet}
            \cup {LazyUnion(l, p) : l \in LeafSet, p \in PairSet}
UnionOfUnionsSet == {LazyUnion(p, q) : p \in PairSet, q \in PairSet}
ClusterSet == LeafSet \cup UnionSet

\* unions whose leaves are distinct entities
DistinctUnionSet == {c \in UnionSet : Cardinality(Leaves(c)) = Size(c)}

DatesOf(c) == UNION {{Sample(h)[i].date : i \in 1..Len(Sample(h))} : h \in Leaves(c)}

RECURSIVE SumCounters(_)
SumCounters(S) ==
    IF S = {} THEN 0
    ELSE LET x == CHOOSE y \in S : TRUE IN x.counter + SumCounters(S \ {x})

\* the snapshots of the leaves of c taken at date d (leaves distinct)
SnapshotsAt(c, d) ==
    UNION {{Sample(h)[i] : i \in {j \in 1..Len(Sample(h)) : Sample(h)[j].date = d}} :
            h \in Leaves(c)}

\* the (timestamp, combined value) pairs of a sequence
Pairs(seq) == {<<seq[i].date, seq[i].counter>> : i \in 1..Len(seq)}

\* C1: iterating a union yields exactly one individual per distinct
\* timestamp of its leaf stores, so the output is as long as there are
\* distinct timestamps
C1_OnePerTimestamp ==
    \A c \in DistinctUnionSet :
        Len(ClusterIter(c)) = Cardinality(DatesOf(c))

\* C2: the individual a union yields at timestamp T is the combine-fold of
\* exactly the leaf snapshots taken at T, without any contribution from
\* snapshots taken earlier
C2_FoldOfSameTimestamp ==
    \A c \in DistinctUnionSet :
        LET yielded == ClusterIter(c)
        IN  \A i \in 1..Len(yielded) :
                yielded[i].counter = SumCounters(SnapshotsAt(c, yielded[i].date))

\* C3: the sequence any cluster yields is in ascending order of timestamp
C3_Ascending ==
    \A c \in ClusterSet \cup UnionOfUnionsSet :
        LET yielded == ClusterIter(c)
        IN  \A i \in 1..Len(yielded) - 1 : yielded[i].date <= yielded[i + 1].date

\* a union of a union whose output holds a carried aggregate between two
\* later timestamps
C3_Witness ==
    \E c \in UnionSet :
        /\ Size(c) = 3
        /\ LET yielded == ClusterIter(c)
           IN  \E i \in 1..Len(yielded) - 1 :
                /\ yielded[i].date < yielded[i + 1].date
                /\ yielded[i].track = NoTrack
                /\ yielded[1].date < yielded[i].date

\* C4: (A + B) + C yields the same sequence of (timestamp, value) pairs as
\* A + (B + C)
C4_Associative ==
    \A a \in LeafSet, b \in LeafSet, c \in LeafSet :
        LET left == ClusterIter(ClusterAdd(ClusterAdd(a, b), c))
            right == ClusterIter(ClusterAdd(a, ClusterAdd(b, c)))
        IN  [i \in 1..Len(left) |-> <<left[i].date, left[i].counter>>] =
            [i \in 1..Len(right) |-> <<right[i].date, right[i].counter>>]

\* C5: for clusters A and B that share no timestamp, A + B and B + A yield
\* the same set of (timestamp, combined value) pairs
C5_CommutativeOnDisjoint ==
    \A a \in LeafSet \cup PairSet, b \in LeafSet \cup PairSet :
        DatesOf(a) \cap DatesOf(b) = {} =>
            Pairs(ClusterIter(ClusterAdd(a, b))) = Pairs(ClusterIter(ClusterAdd(b, a)))

\* two entities with interleaved, disjoint timestamps
C5_Witness ==
    \E a \in LeafSet, b \in LeafSet :
        /\ DatesOf(a) \cap DatesOf(b) = {}
        /\ Cardinality(DatesOf(a)) = 2 /\ Cardinality(DatesOf(b)) = 1
        /\ \E d \in DatesOf(b) : \E d1 \in DatesOf(a), d2 \in DatesOf(a) : d1 < d /\ d < d2
        /\ Len(ClusterIter(ClusterAdd(a, b))) = 3
        /\ ClusterIter(ClusterAdd(a, b))[3].track = NoTrack

\* C6: an entity without snapshots is neutral for union on both sides, and
\* a union that includes it yields what the union of the rest yields
C6_EmptyNeutral ==
    \A e \in LeafSet :
        ClusterIter(e) = <<>> =>
            /\ \A a \in LeafSet \cup PairSet :
                /\ ClusterIter(ClusterAdd(a, e)) = ClusterIter(a)
                /\ ClusterIter(ClusterAdd(e, a)) = ClusterIter(a)
            /\ \A a \in LeafSet, b \in LeafSet :
                /\ ClusterIter(ClusterAdd(ClusterAdd(a, e), b)) = ClusterIter(ClusterAdd(a, b))
                /\ ClusterIter(ClusterAdd(a, ClusterAdd(e, b))) = ClusterIter(ClusterAdd(a, b))
                /\ ClusterIter(ClusterAdd(ClusterAdd(e, a), b)) = ClusterIter(ClusterAdd(a, b))
                /\ ClusterIter(ClusterAdd(a, ClusterAdd(b, e))) = ClusterIter(ClusterAdd(a, b))

\* an empty entity next to a union of two entities that yields an aggregate
C6_Witness ==
    \E e \in LeafSet, a \in LeafSet, b \in LeafSet :
        /\ ClusterIter(e) = <<>>
        /\ Len(ClusterIter(a)) >= 2 /\ ClusterIter(b) # <<>>
        /\ ClusterIter(ClusterAdd(ClusterAdd(a, e), b)) = ClusterIter(ClusterAdd(a, b))
        /\ ClusterIter(ClusterAdd(a, e)) = ClusterIter(a)

\* C7: A + 0 and 0 + A are A itself (no LazyUnion is built), so sum() over
\* a list of clusters is the left-nested union of the list
C7_ZeroNeutral ==
    /\ \A c \in ClusterSet :
        /\ ClusterAdd(c, Zero) = c
        /\ ClusterRadd(c, Zero) = c
        /\ ClusterIter(ClusterAdd(c, Zero)) = ClusterIter(c)
    /\ \A a \in LeafSet, b \in LeafSet, c \in LeafSet :
        /\ Sum(<<a>>) = a
        /\ Sum(<<a, b>>) = LazyUnion(a, b)
        /\ Sum(<<a, b, c>>) = LazyUnion(LazyUnion(a, b), c)
        /\ ClusterIter(Sum(<<a, b, c>>)) = ClusterIter(ClusterAdd(ClusterAdd(a, b), c))

\* a fold over three non-empty entities
C7_Witness ==
    \E a \in LeafSet, b \in LeafSet, c \in LeafSet :
        /\ Cardinality({a, b, c}) = 3
        /\ ClusterIter(a) # <<>> /\ ClusterIter(b) # <<>> /\ ClusterIter(c) # <<>>
        /\ Len(ClusterIter(Sum(<<a, b, c>>))) = 3
        /\ ClusterAdd(a, Zero) = a

\* the yielded individual y stands for the stored snapshot x: it is x, or
\* an aggregate x was added into
Surfaces(y, x) ==
    /\ y.date = x.date
    /\ y = x \/ (y.track = NoTrack /\ y.counter > x.counter)

\* C8: a union caches nothing: an iteration yields what the leaf stores
\* hold at that moment, so it surfaces every snapshot stored before it; a
\* list materialized earlier is not touched by a later append; and while
\* nothing is appended, iterating again yields the same sequence
C8_NoCaching ==
    /\ [](fresh /\ out # NoList =>
            /\ out.items = ClusterIter(out.of)
            /\ \A h \in Leaves(out.of) : \A i \in 1..Len(Sample(h)) :
                \E j \in 1..Len(out.items) : Surfaces(out.items[j], Sample(h)[i]))
    /\ [][stores' # stores => out' = out]_vars

\* a union was iterated in full, then a snapshot with a later timestamp
\* was stored: iterating now would end with it, the earlier list does not
C8_Witness ==
    /\ out # NoList /\ ~fresh
    /\ out.of.op = "union"
    /\ out.items # <<>>
    /\ LET again == ClusterIter(out.of)
       IN  /\ Len(again) = Len(out.items) + 1
           /\ again[Len(again)].date > out.items[Len(out.items)].date
           /\ SubSeq(again, 1, Len(out.items)) = out.items

\* two entity objects of the same class built with the same URL
SameEntity(g, h) ==
    /\ Exists(g) /\ Exists(h)
    /\ handles[g].kind = handles[h].kind
    /\ handles[g].url = handles[h].url

\* C9: two handles of one kind built with the same URL while the first is
\* alive share one store: iterating either yields the same sequence, and a
\* snapshot stored through one of them is read as the latest entry through
\* the other
C9_SharedStore ==
    /\ [](\A g \in HandleIds, h \in HandleIds :
            SameEntity(g, h) =>
                /\ handles[g].sample = handles[h].sample
                /\ ClusterIter(Leaf(g)) = ClusterIter(Leaf(h)))
    /\ [][\A g \in HandleIds, h \in HandleIds :
            (/\ SameEntity(g, h) /\ g # h
             /\ handles'[g] = handles[g] /\ handles'[h] = handles[h]
             /\ Len(stores'[handles[g].sample].items) = Len(Sample(g)) + 1) =>
                \E i \in 1..Len(stores'[handles[h].sample].items) :
                    LET x == stores'[handles[h].sample].items[i]
                    IN  /\ \A k \in 1..Len(Sample(g)) : Sample(g)[k] # x
                        /\ (\A k \in 1..Len(Sample(g)) : Sample(g)[k].date < x.date)
                            => i = Len(stores'[handles[h].sample].items)]_vars

\* the latest entry read through one handle was stored through another
C9_Witness ==
    \E g \in HandleIds, h \in HandleIds :
        /\ SameEntity(g, h) /\ g # h
        /\ handles[g].live /\ handles[h].live
        /\ Len(Sample(h)) = 2
        /\ Latest(h).track = g
        /\ Sample(h)[1].track = h

KeyOf(h) == <<handles[h].kind, handles[h].url>>

\* C10 as stated: a store is registered exactly as long as a handle for its
\* identifier is reachable from the program
C10_LivesWhileReachable ==
    \A k \in Keys :
        samples[k] # NoStore <=>
            \E h \in Reachable(handles, stores, Roots(handles, cluster, out, built, total)) :
                KeyOf(h) = k

\* C10 as amended: a store is registered exactly as long as an entity
\* object for its identifier exists, reachable or not yet reclaimed; a new
\* handle gets that store with all its snapshots, and once every handle for
\* the identifier is reclaimed a new handle starts with an empty store
C10_LivesWhileNotReclaimed ==
    /\ [](\A k \in Keys :
            /\ samples[k] # NoStore <=> \E h \in HandleIds : Exists(h) /\ KeyOf(h) = k
            /\ samples[k] # NoStore => stores[samples[k]].alive)
    /\ [][\A h \in HandleIds :
            (~Exists(h) /\ handles'[h] # NoHandle) =>
                LET k == <<handles'[h].kind, handles'[h].url>>
                    s == handles'[h].sample
                IN  /\ samples'[k] = s
                    /\ IF \E g \in HandleIds : Exists(g) /\ KeyOf(g) = k
                       THEN /\ \A g \in HandleIds :
                                Exists(g) /\ KeyOf(g) = k => handles[g].sample = s
                            /\ stores'[s] = stores[s]
                       ELSE stores'[s].items = <<>>]_vars

\* a handle built while the only other handle for its URL was unreachable
\* and not yet reclaimed holds the snapshot stored through that handle
C10_Witness ==
    \E g \in HandleIds, h \in HandleIds :
        /\ SameEntity(g, h) /\ g # h
        /\ ~handles[g].live /\ handles[h].live
        /\ Sample(h) # <<>>
        /\ \A i \in 1..Len(Sample(h)) : Sample(h)[i].track = g

\* ------------------------------------------------- the store of an entity
\* the snapshots a store holds, as a set
Stored(h) == {Sample(h)[i] : i \in 1..Len(Sample(h))}

\* the stored snapshot with the greatest timestamp
Greatest(h) == CHOOSE s \in Stored(h) : \A t \in Stored(h) : t.date <= s.date

\* C11: whatever the order in which the timestamps arrived, and whether or
\* not they repeated, a store holds at most one snapshot per timestamp and
\* iterating the entity yields its snapshots in strictly ascending
\* timestamp order
C11_SortedUnique ==
    \A h \in HandleIds :
        Exists(h) =>
            LET yielded == ClusterIter(Leaf(h))
            IN  /\ yielded = Sample(h)
                /\ \A i \in 1..Len(yielded) - 1 : yielded[i].date < yielded[i + 1].date
                /\ \A i \in 1..Len(yielded), j \in 1..Len(yielded) :
                        yielded[i].date = yielded[j].date => i = j

\* the last snapshot built arrived out of order and with a timestamp the
\* store had already: it is not stored, the store holds another snapshot of
\* its timestamp and a snapshot of a later one
C11_Witness ==
    /\ built # NoSnapshot /\ built.track # NoTrack
    /\ LET h == built.track
       IN  /\ Len(Sample(h)) >= 2
           /\ built \notin Stored(h)
           /\ \E s \in Stored(h) : s.date = built.date
           /\ \E s \in Stored(h) : s.date > built.date

\* C12: a snapshot built for a timestamp its store already holds with a
\* differing value either raises an error or replaces the entry; as no
\* constructor raises, the entry a store holds at the timestamp of the
\* snapshot the program just got back is that very snapshot
C12_ConflictNeverKeepsOlder ==
    (built # NoSnapshot /\ built.track # NoTrack) =>
        \A s \in Stored(built.track) : s.date = built.date => s = built

\* what the snapshot s answers to the query q
Answer(s, q) ==
    CASE q = "getName" ->
            IF s.kind = "github" THEN <<s.owner, s.title>> ELSE <<s.title>>
      [] q = "getOwner" -> s.owner
      [] q = "getTags" -> s.tags
      [] q = "getLanguages" -> LanguageNames(s.languages)

\* C13: every current-value query of an entity with snapshots answers from
\* the stored snapshot with the greatest timestamp
C13_AnswersFromGreatest ==
    \A h \in HandleIds :
        (Exists(h) /\ Sample(h) # <<>>) =>
            \A q \in Queries(handles[h].kind) :
                /\ ~Raises(h, q)
                /\ Query(h, q) = Answer(Greatest(h), q)

\* the queries that do not raise answer from the snapshot with the
\* greatest timestamp
AnswersFromGreatestUnlessRaised ==
    \A h \in HandleIds :
        (Exists(h) /\ Sample(h) # <<>>) =>
            \A q \in Queries(handles[h].kind) :
                ~Raises(h, q) => Query(h, q) = Answer(Greatest(h), q)

\* the snapshot built last is older than the one the queries answer from
AnswersFromGreatestReached ==
    /\ built # NoSnapshot /\ built.track # NoTrack
    /\ built \in Stored(built.track)
    /\ built.date < Greatest(built.track).date
    /\ built.title # Greatest(built.track).title
    /\ GetName(built.track) = Answer(Greatest(built.track), "getName")

\* C14: the queries of an entity without snapshots do not fail: getName
\* gives "(unknown title)", or owner/title of the URL for a repository,
\* getOwner the owner of the URL, getTags and getLanguages the empty set
C14_EmptyStoreSentinel ==
    \A h \in HandleIds :
        (Exists(h) /\ Sample(h) = <<>>) =>
            /\ \A q \in Queries(handles[h].kind) : ~Raises(h, q)
            /\ handles[h].kind = "github" =>
                    /\ Query(h, "getName") =
                            <<UrlOwner(handles[h].url), UrlTitle(handles[h].url)>>
                    /\ Query(h, "getOwner") = UrlOwner(handles[h].url)
                    /\ Query(h, "getLanguages") = {}
            /\ handles[h].kind # "github" => Query(h, "getName") = <<UnknownTitle>>
            /\ "getTags" \in Queries(handles[h].kind) => Query(h, "getTags") = {}

\* a repository without snapshots next to one with snapshots, whose name
\* is the one of its latest snapshot
C14_Witness ==
    \E g \in HandleIds, h \in HandleIds :
        /\ handles[g].kind = "github"
        /\ Sample(g) = <<>> /\ Len(Sample(h)) = 2
        /\ GetName(g) = <<1, g>> /\ GetTags(g) = {}
        /\ GetName(h) # <<1, h>>

\* the named things: entities, and named clusters under any name
NamedThings ==
    {[named |-> "entity", h |-> h] : h \in {g \in HandleIds : Exists(g)}}
        \cup {[named |-> "cluster", name |-> <<n>>] : n \in Titles \cup {UnknownTitle}}

NameOf(x) == IF x.named = "entity" THEN GetName(x.h) ELSE x.name

HashOf(x) == IF x.named = "entity" THEN EntityHash(x.h) ELSE NamedEntityHash(NameOf(x))

\* C15: two named entities or named clusters are equal exactly when their
\* names are equal, and two that are equal have equal hashes
C15_EqualByNameHashByName ==
    \A x \in NamedThings, y \in NamedThings :
        /\ NamedEntityEq(NameOf(x), NameOf(y)) <=> NameOf(x) = NameOf(y)
        /\ NamedEntityEq(NameOf(x), NameOf(y)) => HashOf(x) = HashOf(y)

\* C16: a named cluster yields, in every state, what the cluster it wraps
\* yields in that state, and is named as it was built; so a list made of
\* it holds what the stores held when the list was made, snapshots stored
\* after the wrapper was built included
C16_NamedIteratesAsWrapped ==
    /\ []((cluster # NoCluster /\ cluster.op = "named") =>
            ClusterIter(cluster) = ClusterIter(cluster.cluster))
    /\ []((out # NoList /\ fresh /\ out.of.op = "named") =>
            out.items = ClusterIter(out.of.cluster))
    /\ [][\A name \in Titles :
            (cluster # NoCluster /\ cluster' = NamedCluster(name, cluster)) =>
                NamedClusterGetName(cluster') = name]_vars
    /\ [][(cluster # NoCluster /\ cluster.op = "named") =>
            NamedClusterGetName(cluster') = NamedClusterGetName(cluster)]_vars

\* a named union was listed, then a snapshot was stored: the named union
\* and the union both yield one more individual than the list holds
C16_Witness ==
    /\ out # NoList /\ ~fresh
    /\ out.of = cluster
    /\ cluster.op = "named" /\ cluster.cluster.op = "union"
    /\ out.items # <<>>
    /\ Len(ClusterIter(cluster)) = Len(out.items) + 1
    /\ ClusterIter(cluster) = ClusterIter(cluster.cluster)

\* ------------------------------------------------- the algebra of snapshots
\* the individuals the program can add up: the stored snapshots and, when
\* it is one, the aggregate it has accumulated
Individuals ==
    AllStored \cup (IF total \in {Zero, Raised} THEN {} ELSE {total})

\* C17: the sum of two GitHub snapshots has no repository, owner or title,
\* the sum of the counters, the union of the licenses, the later of the
\* two timestamps and the language samples of both, one after the other
C17_GitHubAggregate ==
    \A a \in Individuals, b \in Individuals :
        a.kind = "github" =>
            LET sum == IndividualAdd(a, b)
            IN  /\ sum.kind = "github"
                /\ sum.track = NoTrack /\ sum.owner = NoOwner /\ sum.title = NoTitle
                /\ sum.counter = a.counter + b.counter
                /\ sum.licenses = a.licenses \cup b.licenses
                /\ sum.date = Max(a.date, b.date)
                /\ sum.languages.sample = a.languages.sample \o b.languages.sample
                /\ DOMAIN sum = DOMAIN a

\* the program holds the sum of two stored snapshots of two repositories
\* that differ in date, licenses and languages, the later one on the left
C17_Witness ==
    \E a \in AllStored, b \in AllStored :
        /\ a.kind = "github" /\ a.track # b.track
        /\ a.date > b.date
        /\ a.licenses # {} /\ b.licenses # {} /\ a.licenses # b.licenses
        /\ a.languages # b.languages
        /\ total = IndividualAdd(a, b)
        /\ total.date = a.date /\ Len(total.languages.sample) = 2

\* two individuals agree in every field, the order within a language
\* sample aside
SameFields(x, y) ==
    /\ x # Raised /\ y # Raised
    /\ x.kind = y.kind /\ x.track = y.track /\ x.title = y.title
    /\ x.date = y.date /\ x.counter = y.counter
    /\ x.kind = "github" =>
            /\ x.owner = y.owner /\ x.licenses = y.licenses
            /\ \A r \in LanguageNames(x.languages) \cup LanguageNames(y.languages) :
                    Cardinality({i \in 1..Len(x.languages.sample) :
                                    r \in DOMAIN x.languages.sample[i]}) =
                    Cardinality({i \in 1..Len(y.languages.sample) :
                                    r \in DOMAIN y.languages.sample[i]})
    /\ x.kind = "tumblr" => x.tags = y.tags
    /\ x.kind = "wattpad_page" => x.subtitle = y.subtitle

\* C18: for the snapshots of every class, a + b has the fields of b + a,
\* (a + b) + c has the fields of a + (b + c), and the timestamp of a + b is
\* the later of the two
C18_CommutativeAssociative ==
    \A a \in AllStored, b \in AllStored, c \in AllStored :
        /\ SameFields(IndividualAdd(a, b), IndividualAdd(b, a))
        /\ SameFields(IndividualAdd(IndividualAdd(a, b), c),
                      IndividualAdd(a, IndividualAdd(b, c)))
        /\ IndividualAdd(a, b).date = Max(a.date, b.date)

\* the set of tags or licenses of a snapshot of a class that has one
Categorical(x) == IF x.kind = "github" THEN x.licenses ELSE x.tags

\* C19: for the classes with a set of tags or licenses, the set of a + b is
\* the union of the sets of a and b
C19_SetsUnite ==
    \A a \in Individuals, b \in Individuals :
        a.kind \in Tagged =>
            Categorical(IndividualAdd(a, b)) = Categorical(a) \cup Categorical(b)

\* sum(individuals): 0 + s1 + s2 + ...
RECURSIVE SumIndividualsFrom(_, _)
SumIndividualsFrom(start, individuals) ==
    IF individuals = <<>> \/ start = Raised THEN start
    ELSE SumIndividualsFrom(IF start = Zero THEN IndividualRadd(individuals[1], start)
                            ELSE IndividualAdd(start, individuals[1]),
                            Tail(individuals))

\* C20: for the snapshots of every class s + 0 and 0 + s are s, so
\* sum() of a list of snapshots is their left-nested sum
C20_ZeroIsIdentity ==
    \A a \in AllStored, b \in AllStored :
        /\ IndividualAdd(a, Zero) = a
        /\ IndividualRadd(a, Zero) = a
        /\ SumIndividualsFrom(Zero, <<a>>) = a
        /\ SumIndividualsFrom(Zero, <<a, b>>) = IndividualAdd(a, b)

\* ------------------------------------------------ individuals of two classes
\* the individuals the consumer of an iteration got
Yielded(seq) ==
    IF seq # <<>> /\ seq[Len(seq)] \in Exceptions
    THEN SubSeq(seq, 1, Len(seq) - 1) ELSE seq

\* the iteration ended with an exception
Failed(seq) == seq # <<>> /\ seq[Len(seq)] \in Exceptions

\* the sets of stored snapshots of one class that hold at most one snapshot
\* of each leaf of c
SameKindParts(c, kind) ==
    {S \in SUBSET {x \in AllStored : x.kind = kind /\ x.track \in Leaves(c)} :
        S # {} /\ \A x \in S, y \in S : x.track = y.track => x = y}

\* C21: adding a snapshot of another class raises, directly and inside the
\* iteration of a union whose two sides both yield and are of two classes,
\* which ends with the exception; what an iteration yields before it is a
\* snapshot or an aggregate of snapshots of one class only
C21_MixedKindsRaise ==
    /\ \A a \in Individuals, b \in AllStored :
            a.kind # b.kind =>
                IndividualAdd(a, b) = Raised /\ IndividualAdd(b, a) = Raised
    /\ \A c \in UnionSet :
            LET first == Yielded(ClusterIter(c.first))
                second == Yielded(ClusterIter(c.second))
                yielded == ClusterIter(c)
            IN  /\ \A i \in 1..Len(yielded) - 1 : yielded[i] # Raised
                /\ (\E i \in 1..Len(first), j \in 1..Len(second) :
                        first[i].kind # second[j].kind) => Failed(yielded)
                /\ \A i \in 1..Len(Yielded(yielded)), j \in 1..Len(Yielded(yielded)) :
                        yielded[i].kind = yielded[j].kind
    /\ \A c \in DistinctUnionSet :
            LET yielded == Yielded(ClusterIter(c))
            IN  \A i \in 1..Len(yielded) :
                    \E S \in SameKindParts(c, yielded[i].kind) :
                        yielded[i].counter = SumCounters(S)

\* the program's sum of snapshots of two classes raised, and a union of
\* three entities of two classes yields a snapshot and an aggregate of one
\* class before its iteration raises
C21_Witness ==
    /\ total = Raised
    /\ \E c \in DistinctUnionSet :
            LET yielded == ClusterIter(c)
            IN  /\ Len(yielded) = 3 /\ Failed(yielded)
                /\ yielded[1].track # NoTrack /\ yielded[2].track = NoTrack
                /\ \E h \in Leaves(c) : handles[h].kind # yielded[2].kind

\* ------------------------------------------------- the effects of building
\* the snapshots a constructor call of the store specification may build
BuildInputs ==
    {FromHtml(h, v, date, v, {v}) : h \in HandleIds, v \in Titles, date \in Dates}
        \cup {SnapshotAdd(x, y) : x \in AllStored, y \in AllStored}

\* items holds an entry == self: one of self's entity and timestamp
HoldsEntryFor(items, self) ==
    \E i \in 1..Len(items) : items[i].track = self.track /\ items[i].date = self.date

LanguageClusters ==
    LeafSet \cup PairSet \cup {NamedCluster(n, c) : n \in Titles, c \in PairSet}

\* the timestamps of the individuals a cluster yields
YieldedDates(c) ==
    LET yielded == Yielded(ClusterIter(c))
    IN  {GetDatetime(yielded[i]) : i \in 1..Len(yielded)}

\* C23: a Language over a list of clusters of repositories yields one
\* projection per distinct timestamp of those clusters, in ascending order
\* of timestamp, and the projection of a timestamp has an entry for every
\* cluster of the list that has a snapshot of that timestamp
C23_OneProjectionPerTimestamp ==
    handles[1].kind = "github" =>
        \A language \in Titles, c \in LanguageClusters, d \in LanguageClusters :
            LET self == Language(language, <<c, d>>)
                yielded == ClusterIter(self)
            IN  /\ ~Failed(yielded)
                /\ Len(yielded) = Cardinality(YieldedDates(c) \cup YieldedDates(d))
                /\ \A i \in 1..Len(yielded) - 1 :
                        ProjectionDatetime(yielded[i]) < ProjectionDatetime(yielded[i + 1])
                /\ \A i \in 1..Len(yielded), k \in 1..2 :
                        ProjectionDatetime(yielded[i]) \in YieldedDates(self.clusters[k])
                            => DictKey(self.clusters[k], k) \in DOMAIN yielded[i].clusters

\* the projection the Language yields for the timestamp T, if it yields one
ProjectionAt(self, T) ==
    LET yielded == Yielded(ClusterIter(self))
    IN  {yielded[i] : i \in {j \in 1..Len(yielded) : ProjectionDatetime(yielded[j]) = T}}

\* C24: the union of two Languages over the same two repositories yields
\* one projection per distinct timestamp of the repositories, whose ratio
\* for each repository is the sum of the ratios the two Languages give it
\* at that timestamp
C24_LanguageUnionSumsRatios ==
    handles[1].kind = "github" =>
        \A python \in Titles, other \in Titles, a \in LeafSet, b \in LeafSet :
            (python # other /\ a # b) =>
                LET first == Language(python, <<a, b>>)
                    second == Language(other, <<a, b>>)
                    yielded == ClusterIter(LazyUnion(first, second))
                IN  /\ ~Failed(yielded)
                    /\ Len(yielded) = Cardinality(YieldedDates(a) \cup YieldedDates(b))
                    /\ \A i \in 1..Len(yielded) :
                            \A p \in ProjectionAt(first, ProjectionDatetime(yielded[i])),
                               q \in ProjectionAt(second, ProjectionDatetime(yielded[i])) :
                                \A key \in DOMAIN yielded[i].clusters :
                                    /\ key \in DOMAIN p.clusters \cap DOMAIN q.clusters
                                    /\ ProjectionRatio(yielded[i], key)[1] =
                                            ProjectionRatio(p, key)[1]
                                                + ProjectionRatio(q, key)[1]

\* the languages of the last individual of a sequence that is not after T
LanguagesAtOrBefore(seq, T) ==
    LET last == CHOOSE i \in 1..Len(seq) :
                    /\ seq[i].date <= T
                    /\ \A j \in 1..Len(seq) : seq[j].date <= T => j <= i
    IN  seq[last].languages

\* C29: the projection a Language over two repositories yields for the
\* timestamp T holds, for each of the two that has a snapshot at or before
\* T, the languages of its latest snapshot at or before T
C29_ProjectionHoldsLatest ==
    handles[1].kind = "github" =>
        \A language \in Titles, a \in LeafSet, b \in LeafSet :
            a # b =>
                LET self == Language(language, <<a, b>>)
                    yielded == Yielded(ClusterIter(self))
                IN  \A i \in 1..Len(yielded), k \in 1..2 :
                        LET seq == ClusterIter(self.clusters[k])
                            T == ProjectionDatetime(yielded[i])
                            key == DictKey(self.clusters[k], k)
                        IN  (\E j \in 1..Len(seq) : seq[j].date <= T) =>
                                /\ key \in DOMAIN yielded[i].clusters
                                /\ yielded[i].clusters[key] = LanguagesAtOrBefore(seq, T)

\* C27: getTags of a repository does not fail, whatever snapshots the
\* GitHub snapshot constructor has stored: it gives the tags of the
\* snapshot with the greatest timestamp, and the empty set without snapshots
C27_GetTagsSucceeds ==
    \A h \in HandleIds :
        (Exists(h) /\ handles[h].kind = "github") =>
            /\ ~Raises(h, "getTags")
            /\ Sample(h) = <<>> => GetTags(h) = {}
            /\ Sample(h) # <<>> => GetTags(h) = Greatest(h).tags

\* yielded is an interleaving of first and second in which every element
\* is combined with the element of the other sequence seen last, which is
\* not of a later timestamp, or stands unchanged while the other sequence
\* has given nothing; seen[k] is <<>> or holds the element seen last
RECURSIVE CarriesLastSeen(_, _, _, _)
CarriesLastSeen(yielded, first, second, seen) ==
    IF yielded = <<>> THEN first = <<>> /\ second = <<>>
    ELSE \/ /\ first # <<>>
            /\ IF seen[2] = <<>> THEN yielded[1] = first[1]
               ELSE /\ seen[2][1].date <= first[1].date
                    /\ yielded[1] = IndividualAdd(first[1], seen[2][1])
            /\ CarriesLastSeen(Tail(yielded), Tail(first), second,
                               <<<<first[1]>>, seen[2]>>)
         \/ /\ second # <<>>
            /\ IF seen[1] = <<>> THEN yielded[1] = second[1]
               ELSE /\ seen[1][1].date <= second[1].date
                    /\ yielded[1] = IndividualAdd(second[1], seen[1][1])
            /\ CarriesLastSeen(Tail(yielded), first, Tail(second),
                               <<seen[1], <<second[1]>>>>)

C30_StoresUnchangedByCombineAndIterate ==
    /\ [](\A x \in AllStored, y \in AllStored :
            LET sum == IndividualAdd(x, y)
            IN  /\ TrackOf(sum) = NoTrack
                /\ sum \notin AllStored
                /\ Registered(stores, sum) = stores)
    /\ [](\A x \in AllStored : x.track # NoTrack)
    /\ [](out # NoList =>
            \A i \in 1..Len(out.items) :
                out.items[i].track = NoTrack \/ out.items[i].track \in Leaves(out.of))
    /\ [][stores' # stores =>
            /\ cluster' = cluster /\ out' = out
            /\ \E h \in HandleIds, date \in Dates :
                    stores' = EntityAdd(stores, FromHtml(h, 1, date, 1, {}))]_vars

\* a list of a union that holds an aggregate, taken while the stores held
\* what they hold now
C30_Witness ==
    /\ out # NoList /\ fresh
    /\ out.of.op = "union"
    /\ \E i \in 1..Len(out.items) : out.items[i].track = NoTrack
    /\ StoredCount = MaxIterSnaps

\* every element the stores of the leaves hold has been handed out by its
\* leaf, and every union has handed on, as the incoming element of an
\* individual of its own, every element it took from its constituents
RECURSIVE AllContributed(_)
AllContributed(st) ==
    IF st.op = "leaf" THEN st.given = Len(Sample(st.h))
    ELSE /\ st.given = st.first.given + st.second.given
         /\ AllContributed(st.first)
         /\ AllContributed(st.second)

\* the iteration has ended, nothing is left in a constituent or held back
\* in the union, and the consumer has the whole list of the union
Ended ==
    /\ iterator # NoIterator
    /\ iterator.phase = "done"
    /\ AllContributed(iterator)
    /\ Len(out.items) = iterator.given
    /\ out.items = ClusterIter(out.of)

\* C25: an iteration of a union over finite stores, by a consumer that
\* keeps asking, ends, and when it has ended every snapshot of every
\* constituent has been the incoming element of an individual the consumer
\* received; it does not end before
C25_TerminatesWithAllContributed ==
    /\ (iterator # NoIterator) ~> Ended
    /\ []((iterator # NoIterator /\ iterator.phase = "done") => Ended)

\* the iteration of a union of a union and an entity has ended with three
\* individuals received, the last of them an aggregate
C25_Witness ==
    /\ Ended
    /\ Size(out.of) = 3
    /\ Len(out.items) = 3
    /\ out.items[3].track = NoTrack
    /\ out.items[3].counter = 3

\* how many of the first k elements merge gives the union c come from its
\* constituent src: the elements that determine the first k individuals
Needed(c, k, src) ==
    LET merged == Merge(ClusterIter(c.first), ClusterIter(c.second), 0)
    IN  Cardinality({j \in 1..k : merged[j].src = src})

\* C26: when the consumer has received k individuals of a union, the union
\* has taken from each constituent the elements that determine those k
\* individuals and at most one more, and nothing before the consumer asked
\* for the first; no step of an iteration, taken or abandoned, changes a
\* store
C26_PullBased ==
    /\ [](iterator # NoIterator =>
            LET k == Len(out.items)
            IN  /\ \A src \in 0..1 :
                        /\ Needed(out.of, k, src) <= Constituent(iterator, src).given
                        /\ Constituent(iterator, src).given
                                <= Needed(out.of, k, src) + 1
                /\ k = 0 => \A src \in 0..1 : Constituent(iterator, src).given = 0)
    /\ [][iterator # NoIterator => stores' = stores]_vars

\* an iteration under way: the consumer has one individual, the union has
\* taken one element of each constituent, and its first constituent holds
\* two elements nobody has asked for
C26_Witness ==
    /\ iterator # NoIterator
    /\ iterator.phase = "both"
    /\ Len(out.items) = 1
    /\ iterator.first.given = 1 /\ iterator.second.given = 1
    /\ Len(ClusterIter(out.of.first)) = 2
    /\ Len(ClusterIter(out.of.second)) = 1
    /\ iterator.top = 1

====
